---- MODULE Spec2Model ----
(***************************************************************************)
(* Scoring state machine of the tennis match engine.                       *)
(*                                                                         *)
(*   src/src/game_control/models/match.py   Match, GameScore, SetScore     *)
(*   src/src/game_control/models/player.py  Player.update_stats            *)
(*   src/src/game_control/match_manager.py  MatchManager                   *)
(*                                                                         *)
(* A Match is driven through its MatchManager, as src/src/app.py does.     *)
(* Python's None is the string "None"; a reference to a SetScore held in   *)
(* Match.sets is the index of that SetScore in sets.                       *)
(***************************************************************************)
EXTENDS Integers, Sequences, FiniteSets, TLC

\* ------------------------------------------------------------------------
\* Bounds of the exploration (not program constants)
\* ------------------------------------------------------------------------

\* add_point is explored while current_point <= MaxPoint
MaxPoint == 72

\* number of times the winner of a point may differ from the winner of the
\* point before it, over one run
MaxSwitches == 2

\* the same, in the runs of SpecCalls, which also make the calls that are
\* turned down
MaxCallSwitches == 0

\* number of calls, over one run, that pass a player id naming no player
MaxUnknownIds == 1

\* the longest run of points won by one player that is looked at from one
\* state
MaxRun == 6

\* Bounds of the runs with listeners, ScoreManager and EventManager calls:
\* the points that may be played, the calls other than start_match and
\* add_point, and the seconds that pass between two calls when time passes
MaxScorePoint == 2
MaxSideCalls == 2
TickSeconds == 30
\* points of a match whose EventManager is followed
MaxEventPoint == 7
\* events in the log of the EventManager
MaxEvents == 2
\* callbacks registered with the EventManager
MaxEventListeners == 2
\* update_player_position calls of a run
MaxPositionUpdates == 102
\* the first calls of a run, which go to either player; later ones are for
\* player1
MaxMixedUpdates == 3
\* points of a match whose players' positions are followed
MaxPositionPoint == 2
\* points of a match with a listener that calls add_point
MaxReentryPoint == 6

\* ------------------------------------------------------------------------
\* Program constants
\* ------------------------------------------------------------------------

None == "None"

\* MatchManager.__init__: Player(player_id="player1"), Player(player_id="player2")
P1 == "player1"
P2 == "player2"
PlayerIds == {P1, P2}

\* the ids a caller can pass (player ids are plain strings): the two players'
\* and one that names no player
UnknownId == "unknown"
AnyIds == PlayerIds \cup {UnknownId}

\* MatchFormat
MatchFormats == {"BEST_OF_3", "BEST_OF_5"}

\* point_type values submitted by the point source
PointTypes == {"normal"}

\* GameScore()
NewGameScore ==
    [player1_points |-> 0, player2_points |-> 0, is_deuce |-> FALSE,
     has_advantage |-> None, is_completed |-> FALSE, winner |-> None]

\* SetScore()
NewSetScore ==
    [player1_games |-> 0, player2_games |-> 0,
     player1_tiebreak |-> 0, player2_tiebreak |-> 0,
     is_tiebreak |-> FALSE, is_completed |-> FALSE, winner |-> None]

\* Match.events = []: the list is only appended to and only its length is read
\* back, so it is kept as its length and its last entry
NoEvents == [len |-> 0, last |-> None]

\* PlayerStats(), the counters Match and Player.update_stats write
NewPlayerStats ==
    [aces |-> 0, double_faults |-> 0, winners |-> 0, unforced_errors |-> 0,
     forced_errors |-> 0, total_points_won |-> 0]

VARIABLES
    match_format,        \* Match.match_format
    tiebreak_type,       \* Match.tiebreak_type
    status,              \* Match.status
    current_set,         \* Match.current_set
    current_game,        \* Match.current_game
    current_point,       \* Match.current_point
    serving_player,      \* Match.serving_player
    is_serving,          \* Player.is_serving of player1 and player2
    sets,                \* Match.sets
    current_set_score,   \* Match.current_set_score: index into sets
    current_game_score,  \* Match.current_game_score
    events,              \* Match.events: length and last MatchEvent
    stats,               \* Player.stats of player1 and player2
    is_paused,           \* MatchManager.is_paused
    event_callbacks,     \* MatchManager.event_callbacks
    score_manager,       \* the ScoreManager of the match: point_history,
                         \* scoreboard, stats_cache, cache_timestamp and
                         \* the callbacks of score_updated
    event_manager,       \* the EventManager of the match: the length of
                         \* events, the callbacks of each event type,
                         \* _break_point_active and _deuce_active
    now,                 \* datetime.now(), in seconds since construction
    last_call,           \* the last call: its name, how it ended, the event
                         \* types it emitted, the callbacks it called
    last_stats,          \* what the last get_key_statistics returned
    updates,             \* update_from_match calls since the Match changed
    side_calls,          \* calls so far other than start_match, add_point,
                         \* pause_match and resume_match
    last_winner,         \* winner_player_id of the last accepted point
    switches,            \* changes of winner between consecutive points
    unknown_calls,       \* calls so far that passed UnknownId
    discarded,           \* whether a point was given to the paused match
                         \* and ignored
    position_history,    \* Player.position_history of player1 and player2
    current_location,    \* Player.current_location of player1 and player2
    position_updates,    \* update_player_position calls so far
    was_break_point      \* whether the Match was at a break point when
                         \* analyze_point was last called

vars == <<match_format, tiebreak_type, status, current_set, current_game,
          current_point, serving_player, is_serving, sets, current_set_score,
          current_game_score, events, stats, is_paused, event_callbacks,
          score_manager, event_manager, now, last_call, last_stats, updates,
          side_calls, last_winner, switches, unknown_calls, discarded,
          position_history, current_location, position_updates,
          was_break_point>>

\* the fields of the Match object
match_vars == <<match_format, tiebreak_type, status, current_set, current_game,
                current_point, serving_player, is_serving, sets,
                current_set_score, current_game_score, events, stats>>

\* what a MatchManager call without callbacks to run leaves alone
listener_vars == <<event_callbacks, event_manager, now, last_stats, side_calls,
                   position_history, current_location, position_updates,
                   was_break_point>>

\* The mutable fields of the Match object, as one record
MatchState ==
    [match_format |-> match_format, tiebreak_type |-> tiebreak_type,
     status |-> status, current_set |-> current_set,
     current_game |-> current_game, current_point |-> current_point,
     serving_player |-> serving_player, is_serving |-> is_serving,
     sets |-> sets, current_set_score |-> current_set_score,
     current_game_score |-> current_game_score, events |-> events,
     stats |-> stats]

\* ------------------------------------------------------------------------
\* Match
\* ------------------------------------------------------------------------

\* Match._add_event
add_event(m, event_type, player_id) ==
    [m EXCEPT !.events =
        [len |-> m.events.len + 1,
         last |-> [event_id |-> m.events.len + 1, event_type |-> event_type,
                   player_id |-> player_id, set_number |-> m.current_set,
                   game_number |-> m.current_game,
                   point_number |-> m.current_point]]]

\* Match.start_match
start_match(m, serving_player_id) ==
    LET m1 == [m EXCEPT !.status = "IN_PROGRESS",
                        !.serving_player = serving_player_id,
                        !.is_serving = IF serving_player_id = P1
                                       THEN [p \in PlayerIds |-> p = P1]
                                       ELSE [p \in PlayerIds |-> p = P2]]
    IN add_event(m1, "match_start", serving_player_id)

\* point_at_forty with the game also won from 40-40 (<= for <)
point_at_forty_win_at_deuce(g, scorer, opponent, opponent_points) ==
    IF opponent_points <= 40
    THEN [g EXCEPT !.is_completed = TRUE, !.winner = scorer]
    ELSE g

\* point_at_forty with the advantage also given against 30 (== 40 as >= 30)
point_at_forty_early_advantage(g, scorer, opponent, opponent_points) ==
    IF opponent_points < 30
    THEN [g EXCEPT !.is_completed = TRUE, !.winner = scorer]
    ELSE IF opponent_points >= 30
    THEN [g EXCEPT !.is_deuce = TRUE, !.has_advantage = scorer]
    ELSE g

\* Match._add_point_to_game, the branch of a scorer who stands at 40:
\* if / elif in source order, for the scorer and the opponent's points
point_at_forty(g, scorer, opponent, opponent_points) ==
    IF opponent_points < 40
    THEN [g EXCEPT !.is_completed = TRUE, !.winner = scorer]
    ELSE IF opponent_points = 40
    THEN [g EXCEPT !.is_deuce = TRUE, !.has_advantage = scorer]
    ELSE IF g.has_advantage = opponent
    THEN [g EXCEPT !.has_advantage = None]
    ELSE IF g.has_advantage = scorer
    THEN [g EXCEPT !.is_completed = TRUE, !.winner = scorer]
    ELSE g

\* Match._add_point_to_game: player is "player1" or anything else (player2)
add_point_to_game(g, player) ==
    IF player = "player1" THEN
        IF g.player1_points = 0 THEN [g EXCEPT !.player1_points = 15]
        ELSE IF g.player1_points = 15 THEN [g EXCEPT !.player1_points = 30]
        ELSE IF g.player1_points = 30 THEN [g EXCEPT !.player1_points = 40]
        ELSE IF g.player1_points = 40
        THEN point_at_forty(g, P1, P2, g.player2_points)
        ELSE g
    ELSE
        IF g.player2_points = 0 THEN [g EXCEPT !.player2_points = 15]
        ELSE IF g.player2_points = 15 THEN [g EXCEPT !.player2_points = 30]
        ELSE IF g.player2_points = 30 THEN [g EXCEPT !.player2_points = 40]
        ELSE IF g.player2_points = 40
        THEN point_at_forty(g, P2, P1, g.player1_points)
        ELSE g

\* switch_server that always hands the serve to player1
switch_server_to_player1(m) ==
    [m EXCEPT !.serving_player = P1,
              !.is_serving = [p \in PlayerIds |-> p = P1]]

\* Match._switch_server
switch_server(m) ==
    IF m.serving_player = P1
    THEN [m EXCEPT !.serving_player = P2,
                   !.is_serving = [p \in PlayerIds |-> p = P2]]
    ELSE [m EXCEPT !.serving_player = P1,
                   !.is_serving = [p \in PlayerIds |-> p = P1]]

\* the SetScore Match.current_set_score refers to
CurrentSet(m) == m.sets[m.current_set_score]

\* is_set_completed with a lead of one game taken for a lead of two
is_set_completed_lead_of_one(m) ==
    \/ ( /\ CurrentSet(m).player1_games >= 6
         /\ CurrentSet(m).player1_games - CurrentSet(m).player2_games >= 1 )
    \/ ( /\ CurrentSet(m).player2_games >= 6
         /\ CurrentSet(m).player2_games - CurrentSet(m).player1_games >= 1 )

\* Match._is_set_completed: the value it returns
is_set_completed(m) ==
    LET p1_games == CurrentSet(m).player1_games
        p2_games == CurrentSet(m).player2_games
        tb1 == CurrentSet(m).player1_tiebreak
        tb2 == CurrentSet(m).player2_tiebreak
    IN  IF p1_games >= 6 /\ p1_games - p2_games >= 2 THEN TRUE
        ELSE IF p2_games >= 6 /\ p2_games - p1_games >= 2 THEN TRUE
        ELSE IF p1_games = 6 /\ p2_games = 6 THEN
            IF ~CurrentSet(m).is_tiebreak THEN FALSE
            ELSE IF m.tiebreak_type = "STANDARD"
                 THEN (tb1 >= 7 /\ tb1 - tb2 >= 2) \/ (tb2 >= 7 /\ tb2 - tb1 >= 2)
            ELSE IF m.tiebreak_type = "SUPER"
                 THEN (tb1 >= 10 /\ tb1 - tb2 >= 2) \/ (tb2 >= 10 /\ tb2 - tb1 >= 2)
            ELSE FALSE
        ELSE FALSE

\* start_tiebreak that never sets SetScore.is_tiebreak
start_tiebreak_never(m) == m

\* Match._is_set_completed: the state it leaves (it starts the tiebreak)
start_tiebreak(m) ==
    LET p1_games == CurrentSet(m).player1_games
        p2_games == CurrentSet(m).player2_games
    IN  IF /\ ~(p1_games >= 6 /\ p1_games - p2_games >= 2)
           /\ ~(p2_games >= 6 /\ p2_games - p1_games >= 2)
           /\ p1_games = 6 /\ p2_games = 6
           /\ ~CurrentSet(m).is_tiebreak
        THEN [m EXCEPT !.sets[m.current_set_score].is_tiebreak = TRUE]
        ELSE m

\* Match._get_set_winner
get_set_winner(m) ==
    IF CurrentSet(m).is_tiebreak
    THEN IF CurrentSet(m).player1_tiebreak > CurrentSet(m).player2_tiebreak
         THEN P1 ELSE P2
    ELSE IF CurrentSet(m).player1_games > CurrentSet(m).player2_games
         THEN P1 ELSE P2

\* sum(1 for s in self.sets if s.winner == player_id)
sets_won(m, player_id) ==
    Cardinality({i \in 1..Len(m.sets) : m.sets[i].winner = player_id})

\* is_match_completed that asks for three sets in every format
is_match_completed_any_format(m) ==
    sets_won(m, P1) >= 3 \/ sets_won(m, P2) >= 3

\* Match._is_match_completed
is_match_completed(m) ==
    IF m.match_format = "BEST_OF_3"
    THEN sets_won(m, P1) >= 2 \/ sets_won(m, P2) >= 2
    ELSE sets_won(m, P1) >= 3 \/ sets_won(m, P2) >= 3

\* Match._get_match_winner
get_match_winner(m) ==
    IF sets_won(m, P1) > sets_won(m, P2) THEN P1 ELSE P2

\* Match._complete_match
complete_match(m, winner_player_id) ==
    add_event([m EXCEPT !.status = "COMPLETED"], "match_end", winner_player_id)

\* complete_set that opens the next set without counting it
complete_set_without_counter(m, winner_player_id) ==
    LET m1 == [m EXCEPT !.sets[m.current_set_score].is_completed = TRUE,
                        !.sets[m.current_set_score].winner = winner_player_id]
    IN  IF is_match_completed(m1)
        THEN complete_match(m1, get_match_winner(m1))
        ELSE [m1 EXCEPT !.current_game = 1,
                        !.sets = Append(@, NewSetScore),
                        !.current_set_score = Len(m1.sets) + 1]

\* Match._complete_set
complete_set(m, winner_player_id) ==
    LET m1 == [m EXCEPT !.sets[m.current_set_score].is_completed = TRUE,
                        !.sets[m.current_set_score].winner = winner_player_id]
    IN  IF is_match_completed(m1)
        THEN complete_match(m1, get_match_winner(m1))
        ELSE [m1 EXCEPT !.current_set = @ + 1,
                        !.current_game = 1,
                        !.sets = Append(@, NewSetScore),
                        !.current_set_score = Len(m1.sets) + 1]

\* complete_game that leaves the game counter alone
complete_game_without_counter(m, winner_player_id) ==
    LET m1 == IF winner_player_id = P1
              THEN [m EXCEPT !.sets[m.current_set_score].player1_games = @ + 1]
              ELSE [m EXCEPT !.sets[m.current_set_score].player2_games = @ + 1]
        m2 == IF is_set_completed(m1)
              THEN complete_set(m1, get_set_winner(m1))
              ELSE start_tiebreak(m1)
        m3 == switch_server(m2)
    IN  [m3 EXCEPT !.current_game_score = NewGameScore]

\* Match._complete_game
complete_game(m, winner_player_id) ==
    LET m1 == IF winner_player_id = P1
              THEN [m EXCEPT !.sets[m.current_set_score].player1_games = @ + 1]
              ELSE [m EXCEPT !.sets[m.current_set_score].player2_games = @ + 1]
        m2 == IF is_set_completed(m1)
              THEN complete_set(m1, get_set_winner(m1))
              ELSE start_tiebreak(m1)
        m3 == switch_server(m2)
    IN  [m3 EXCEPT !.current_game_score = NewGameScore,
                   !.current_game = @ + 1]

\* Player.update_stats
update_stats(s, event_type) ==
    CASE event_type = "ace"            -> [s EXCEPT !.aces = @ + 1]
      [] event_type = "double_fault"   -> [s EXCEPT !.double_faults = @ + 1]
      [] event_type = "winner"         -> [s EXCEPT !.winners = @ + 1]
      [] event_type = "unforced_error" -> [s EXCEPT !.unforced_errors = @ + 1]
      [] event_type = "forced_error"   -> [s EXCEPT !.forced_errors = @ + 1]
      [] OTHER -> s

\* Match._update_player_stats
update_player_stats(m, player_id, point_type) ==
    LET player == IF player_id = P1 THEN P1 ELSE P2
    IN  [m EXCEPT !.stats[player] =
            [update_stats(@, point_type) EXCEPT !.total_points_won = @ + 1]]

\* Match.add_point
add_point(m, winner_player_id, point_type) ==
    LET m1 == [m EXCEPT !.current_game_score =
                  add_point_to_game(@, IF winner_player_id = P1
                                       THEN "player1" ELSE "player2")]
        m2 == IF m1.current_game_score.is_completed
              THEN complete_game(m1, m1.current_game_score.winner)
              ELSE m1
        m3 == update_player_stats(m2, winner_player_id, point_type)
        m4 == add_event(m3, point_type, winner_player_id)
    IN  [m4 EXCEPT !.current_point = @ + 1]

\* the Match object takes the value m
SetMatch(m) ==
    /\ match_format' = m.match_format
    /\ tiebreak_type' = m.tiebreak_type
    /\ status' = m.status
    /\ current_set' = m.current_set
    /\ current_game' = m.current_game
    /\ current_point' = m.current_point
    /\ serving_player' = m.serving_player
    /\ is_serving' = m.is_serving
    /\ sets' = m.sets
    /\ current_set_score' = m.current_set_score
    /\ current_game_score' = m.current_game_score
    /\ events' = m.events
    /\ stats' = m.stats

\* ------------------------------------------------------------------------
\* ScoreManager
\* ------------------------------------------------------------------------

\* ScoreManager._is_break_point
is_break_point(m) ==
    LET game == m.current_game_score
    IN  IF m.serving_player = P1
        THEN \/ (game.player2_points = 40 /\ game.player1_points < 40)
             \/ game.has_advantage = P2
        ELSE \/ (game.player1_points = 40 /\ game.player2_points < 40)
             \/ game.has_advantage = P1

\* is_set_point that takes five games for a set point, whatever the lead
is_set_point_from_five_games(m) ==
    \/ CurrentSet(m).player1_games >= 5
    \/ CurrentSet(m).player2_games >= 5

\* ScoreManager._is_set_point
is_set_point(m) ==
    LET p1_games == CurrentSet(m).player1_games
        p2_games == CurrentSet(m).player2_games
        tb1 == CurrentSet(m).player1_tiebreak
        tb2 == CurrentSet(m).player2_tiebreak
    IN  IF p1_games >= 5 /\ p1_games > p2_games THEN TRUE
        ELSE IF p2_games >= 5 /\ p2_games > p1_games THEN TRUE
        ELSE IF CurrentSet(m).is_tiebreak
             THEN (tb1 >= 6 /\ tb1 > tb2) \/ (tb2 >= 6 /\ tb2 > tb1)
        ELSE FALSE

\* ScoreManager._is_match_point
is_match_point(m) ==
    LET sets_p1 == Cardinality({i \in 1..Len(m.sets) : m.sets[i].winner = P1})
        sets_p2 == Cardinality({i \in 1..Len(m.sets) : m.sets[i].winner = P2})
        sets_needed == IF m.match_format = "BEST_OF_3" THEN 2 ELSE 3
    IN  /\ (sets_p1 = sets_needed - 1 \/ sets_p2 = sets_needed - 1)
        /\ is_set_point(m)

\* PointDetails: every field, the fields without a default, and the fields
\* ScoreManager._create_point_details passes by keyword
PointDetailsFields ==
    {"point_id", "match_id", "timestamp", "set_number", "game_number",
     "point_number", "score_before", "score_after", "serving_player_id",
     "service_number", "service_zone", "winner_player_id", "outcome",
     "ending_shot_type", "rally", "ball_trajectory", "is_break_point",
     "is_set_point", "is_match_point", "is_deuce", "game_situation",
     "duration", "distance_covered_p1", "distance_covered_p2",
     "max_rally_speed", "avg_rally_speed", "weather_conditions",
     "court_conditions", "additional_notes"}
PointDetailsRequired ==
    {"point_id", "match_id", "timestamp", "set_number", "game_number",
     "point_number", "score_before", "score_after", "serving_player_id",
     "winner_player_id", "outcome"}
PointDetailsPassed ==
    {"point_id", "match_id", "timestamp", "set_number", "game_number",
     "point_number", "score_before", "serving_player_id", "winner_player_id",
     "outcome", "is_break_point", "is_set_point", "is_match_point",
     "is_deuce", "game_situation"}

\* the keys of point_data, which MatchManager.add_point puts in every
\* point_scored event and the application's callback passes on as keywords
AppPointData == {"ball_speed", "ball_position", "shot_type"}

\* the keyword arguments of the ScoreManager.update_score calls of the model
KwargsChoices == {{}, {"score_after"}, AppPointData}

\* PointDetails(...): the constructor raises TypeError for an unknown
\* keyword, a keyword given twice, or a missing field without default
point_details_raises(kwargs) ==
    \/ ~(kwargs \subseteq PointDetailsFields)
    \/ kwargs \cap PointDetailsPassed # {}
    \/ ~(PointDetailsRequired \subseteq (PointDetailsPassed \cup kwargs))

\* outcome_map.get(point_type, PointOutcome.WINNER)
outcome_of(point_type) ==
    CASE point_type = "ace"            -> "ACE"
      [] point_type = "winner"         -> "WINNER"
      [] point_type = "unforced_error" -> "UNFORCED_ERROR"
      [] point_type = "forced_error"   -> "FORCED_ERROR"
      [] point_type = "double_fault"   -> "DOUBLE_FAULT"
      [] point_type = "service_winner" -> "SERVICE_WINNER"
      [] point_type = "return_winner"  -> "RETURN_WINNER"
      [] OTHER -> "WINNER"

\* ScoreManager._create_point_details, when the constructor returns
create_point_details(sm, m, winner_player_id, point_type) ==
    [point_id |-> Len(sm.point_history) + 1,
     set_number |-> m.current_set,
     game_number |-> m.current_game,
     point_number |-> m.current_point,
     serving_player_id |-> m.serving_player,
     winner_player_id |-> winner_player_id,
     outcome |-> outcome_of(point_type),
     is_break_point |-> is_break_point(m),
     is_set_point |-> is_set_point(m),
     is_match_point |-> is_match_point(m),
     is_deuce |-> m.current_game_score.is_deuce]

\* GameScoreDisplay("0"), MatchStatsDisplay()
NewGameScoreDisplay ==
    [points |-> "0", is_serving |-> FALSE, is_advantage |-> FALSE,
     is_winner |-> FALSE]
NewMatchStatsDisplay ==
    [aces |-> 0, double_faults |-> 0, winners |-> 0, unforced_errors |-> 0,
     total_points_won |-> 0]

\* Scoreboard(...) as ScoreManager.__init__ builds it: the fields that
\* update_from_match derives from the Match
NewScoreboard ==
    [match_format |-> "Best of 3",
     player1_sets |-> <<>>, player2_sets |-> <<>>,
     player1_current_game |-> NewGameScoreDisplay,
     player2_current_game |-> NewGameScoreDisplay,
     is_tiebreak |-> FALSE, is_deuce |-> FALSE, is_break_point |-> FALSE,
     is_match_point |-> FALSE, is_set_point |-> FALSE,
     player1_stats |-> NewMatchStatsDisplay,
     player2_stats |-> NewMatchStatsDisplay,
     status_message |-> "", special_message |-> ""]

\* SetScoreDisplay of set i of the Match, for player p
set_score_display(m, i, p) ==
    [games |-> IF p = P1 THEN m.sets[i].player1_games
               ELSE m.sets[i].player2_games,
     tiebreak_points |-> IF m.sets[i].is_tiebreak
                         THEN ( IF p = P1 THEN m.sets[i].player1_tiebreak
                                ELSE m.sets[i].player2_tiebreak )
                         ELSE 0,
     is_current |-> i = m.current_set,
     is_completed |-> m.sets[i].is_completed,
     is_winner |-> m.sets[i].winner = p]

\* update_sets_display that appends to the lists it should rebuild
update_sets_display_appending(sb, m) ==
    [sb EXCEPT
       !.player1_sets =
           @ \o [i \in 1..Len(m.sets) |-> set_score_display(m, i, P1)],
       !.player2_sets =
           @ \o [i \in 1..Len(m.sets) |-> set_score_display(m, i, P2)]]

\* Scoreboard._update_sets_display
update_sets_display(sb, m) ==
    [sb EXCEPT
       !.player1_sets = [i \in 1..Len(m.sets) |-> set_score_display(m, i, P1)],
       !.player2_sets = [i \in 1..Len(m.sets) |-> set_score_display(m, i, P2)]]

\* points_to_display of Scoreboard._update_current_game
points_to_display(points, has_advantage, is_opponent_advantage) ==
    IF points = 0 THEN "0"
    ELSE IF points = 15 THEN "15"
    ELSE IF points = 30 THEN "30"
    ELSE IF points = 40
         THEN ( IF has_advantage THEN "AD"
                ELSE IF is_opponent_advantage THEN "40" ELSE "40" )
    ELSE ToString(points)

\* Scoreboard._update_current_game
update_current_game(sb, m) ==
    LET game == m.current_game_score
        p1_has_advantage == game.has_advantage = P1
        p2_has_advantage == game.has_advantage = P2
        sb1 ==
          IF CurrentSet(m).is_tiebreak
          THEN [sb EXCEPT
                 !.player1_current_game =
                     [points |-> ToString(CurrentSet(m).player1_tiebreak),
                      is_serving |-> m.serving_player = P1,
                      is_advantage |-> FALSE, is_winner |-> FALSE],
                 !.player2_current_game =
                     [points |-> ToString(CurrentSet(m).player2_tiebreak),
                      is_serving |-> m.serving_player = P2,
                      is_advantage |-> FALSE, is_winner |-> FALSE],
                 !.is_tiebreak = TRUE]
          ELSE [sb EXCEPT
                 !.player1_current_game =
                     [points |-> points_to_display(game.player1_points,
                                     p1_has_advantage, p2_has_advantage),
                      is_serving |-> m.serving_player = P1,
                      is_advantage |-> p1_has_advantage, is_winner |-> FALSE],
                 !.player2_current_game =
                     [points |-> points_to_display(game.player2_points,
                                     p2_has_advantage, p1_has_advantage),
                      is_serving |-> m.serving_player = P2,
                      is_advantage |-> p2_has_advantage, is_winner |-> FALSE],
                 !.is_tiebreak = FALSE]
    IN  [sb1 EXCEPT !.is_deuce = game.is_deuce]

\* MatchStatsDisplay of Scoreboard._update_statistics for PlayerStats s
match_stats_display(s) ==
    [aces |-> s.aces, double_faults |-> s.double_faults,
     winners |-> s.winners, unforced_errors |-> s.unforced_errors,
     total_points_won |-> s.total_points_won]

\* Scoreboard._update_statistics
update_statistics(sb, m) ==
    [sb EXCEPT !.player1_stats = match_stats_display(m.stats[P1]),
               !.player2_stats = match_stats_display(m.stats[P2])]

\* Scoreboard._update_special_status
update_special_status(sb, m) ==
    LET sb1 == [sb EXCEPT !.is_break_point = FALSE,
                          !.is_match_point = FALSE,
                          !.is_set_point = FALSE,
                          !.status_message =
                              IF m.status = "IN_PROGRESS" THEN "Live"
                              ELSE IF m.status = "COMPLETED" THEN "Final"
                              ELSE "Not_Started"]
    IN  [sb1 EXCEPT !.special_message =
            IF sb1.is_match_point THEN "Match Point"
            ELSE IF sb1.is_set_point THEN "Set Point"
            ELSE IF sb1.is_break_point THEN "Break Point"
            ELSE IF sb1.is_deuce THEN "Deuce"
            ELSE ""]

\* Scoreboard.update_from_match, last_update and match_duration aside
update_from_match(sb, m) ==
    LET sb1 == [sb EXCEPT !.match_format =
                   IF m.match_format = "BEST_OF_3"
                   THEN "Best of 3" ELSE "Best of 5"]
        sb2 == update_sets_display(sb1, m)
        sb3 == update_current_game(sb2, m)
        sb4 == update_statistics(sb3, m)
    IN  update_special_status(sb4, m)

\* the statistics dictionary of ScoreManager.get_key_statistics; the empty
\* dictionary is the record with empty set
NoPlayerKeyStats ==
    [aces |-> 0, winners |-> 0, unforced_errors |-> 0, points_won |-> 0,
     break_points_won |-> 0]
EmptyStats ==
    [empty |-> TRUE, player1 |-> NoPlayerKeyStats, player2 |-> NoPlayerKeyStats,
     match |-> [total_points |-> 0, total_break_points |-> 0]]

\* the number of points of history h that satisfy Test
CountPoints(h, Test(_)) ==
    Cardinality({i \in 1..Len(h) : Test(h[i])})

\* the statistics get_key_statistics computes for player p from history h
player_key_stats(h, p) ==
    LET Won(x) == x.winner_player_id = p
        Ace(x) == Won(x) /\ x.outcome = "ACE"
        Winner(x) == Won(x) /\ x.outcome = "WINNER"
        Unforced(x) == Won(x) /\ x.outcome = "UNFORCED_ERROR"
        BreakWon(x) == Won(x) /\ x.is_break_point
    IN  [aces |-> CountPoints(h, Ace),
         winners |-> CountPoints(h, Winner),
         unforced_errors |-> CountPoints(h, Unforced),
         points_won |-> CountPoints(h, Won),
         break_points_won |-> CountPoints(h, BreakWon)]

\* the dictionary get_key_statistics computes from history h
compute_key_statistics(h) ==
    LET Recorded(x) == TRUE
        Break(x) == x.is_break_point
    IN  [empty |-> FALSE,
         player1 |-> player_key_stats(h, P1),
         player2 |-> player_key_stats(h, P2),
         match |-> [total_points |-> CountPoints(h, Recorded),
                    total_break_points |-> CountPoints(h, Break)]]

\* the seconds the statistics cache stays valid
CacheSeconds == 30

\* ScoreManager._is_stats_cache_valid at time t
is_stats_cache_valid(sm, t) ==
    t - sm.cache_timestamp < CacheSeconds

\* ScoreManager._invalidate_stats_cache
invalidate_stats_cache(sm) ==
    [sm EXCEPT !.stats_cache = EmptyStats]

\* ScoreManager.get_key_statistics at time t: the value returned and the
\* ScoreManager it leaves
get_key_statistics(sm, t) ==
    IF is_stats_cache_valid(sm, t)
    THEN [value |-> sm.stats_cache, sm |-> sm]
    ELSE LET computed == compute_key_statistics(sm.point_history)
         IN  [value |-> computed,
              sm |-> [sm EXCEPT !.stats_cache = computed,
                                !.cache_timestamp = t]]

\* The callbacks of the model: the two the application registers with
\* MatchManager, and listeners of other code, one that returns and one that
\* raises an Exception
OnPointScored == "on_point_scored"
OnGameWon == "on_game_won"
Listener == "listener"
Raiser == "raiser"
Listeners == {Listener, Raiser}

\* one call of a callback: who was called for which event, whether it
\* raised, and what it could read when it ran: of the Match for a
\* MatchManager event, the length of the point history for a ScoreManager
\* event, the length of the event log for an EventManager event
Invocation(event_type, callback, raised, seen) ==
    [event |-> event_type, callback |-> callback, raised |-> raised,
     seen |-> seen]

\* emit_score_event that calls the callbacks before the point is in the
\* history
emit_score_event_early(sm, event_type) ==
    [i \in 1..Len(sm.score_callbacks) |->
        Invocation(event_type, sm.score_callbacks[i],
                   sm.score_callbacks[i] = Raiser,
                   Len(sm.point_history) - 1)]

\* ScoreManager._emit_score_event for the callbacks of score_updated: every
\* callback is called, inside its own try
emit_score_event(sm, event_type) ==
    [i \in 1..Len(sm.score_callbacks) |->
        Invocation(event_type, sm.score_callbacks[i],
                   sm.score_callbacks[i] = Raiser,
                   Len(sm.point_history))]

\* the end of update_score: the ScoreManager it leaves and the callbacks of
\* score_updated, called last
score_updated(sm) ==
    [raised |-> FALSE, sm |-> sm,
     invoked |-> emit_score_event(sm, "score_updated")]

\* ScoreManager.update_score for the Match m: whether it raised, the
\* ScoreManager it leaves and the callbacks it called
update_score(sm, m, winner_player_id, point_type, kwargs) ==
    IF point_details_raises(kwargs)
    THEN [raised |-> TRUE, sm |-> sm, invoked |-> <<>>]
    ELSE LET point_details ==
                 create_point_details(sm, m, winner_player_id, point_type)
             sm1 == [sm EXCEPT !.point_history = Append(@, point_details)]
             sm2 == [sm1 EXCEPT !.scoreboard = update_from_match(@, m)]
         IN  score_updated(invalidate_stats_cache(sm2))

\* ------------------------------------------------------------------------
\* EventManager
\* ------------------------------------------------------------------------

\* the EventType values the EventManager of the model emits
TennisEventTypes == {"ace", "break_point", "deuce", "advantage"}

\* _execute_callbacks with one try around the loop: the first callback that
\* raises is the last one called
execute_callbacks_until_error(callbacks, event_type, seen) ==
    [i \in 1..( IF \E j \in 1..Len(callbacks) : callbacks[j] = Raiser
                THEN CHOOSE j \in 1..Len(callbacks) :
                         /\ callbacks[j] = Raiser
                         /\ \A k \in 1..(j - 1) : callbacks[k] # Raiser
                ELSE Len(callbacks) ) |->
        Invocation(event_type, callbacks[i], callbacks[i] = Raiser, seen)]

\* the loop of EventManager._execute_callbacks over the callbacks of one
\* event type: every callback is called, inside its own try
execute_callbacks_of(callbacks, event_type, seen) ==
    [i \in 1..Len(callbacks) |->
        Invocation(event_type, callbacks[i], callbacks[i] = Raiser, seen)]

\* EventManager._execute_callbacks for an event of event_type
execute_callbacks(em, event_type) ==
    execute_callbacks_of(em.event_callbacks[event_type], event_type,
                         em.events)

\* EventManager.emit_event: the EventManager it leaves and the callbacks
\* it called; events is the length of the event log
emit_tennis_event(em, event_type) ==
    LET em1 == [em EXCEPT !.events = @ + 1]
    IN  [em |-> em1, invoked |-> execute_callbacks(em1, event_type)]

\* EventManager._classify_point_event: type_mapping.get(point_type)
classify_point_event(point_type) ==
    IF point_type \in {"ace", "winner", "unforced_error", "forced_error",
                       "double_fault", "service_winner", "return_winner"}
    THEN point_type
    ELSE None

\* EventManager._is_break_point_situation
is_break_point_situation(m) ==
    IF m.serving_player = P1
    THEN \/ ( m.current_game_score.player2_points = 40
              /\ m.current_game_score.player1_points < 40 )
         \/ m.current_game_score.has_advantage = P2
    ELSE \/ ( m.current_game_score.player1_points = 40
              /\ m.current_game_score.player2_points < 40 )
         \/ m.current_game_score.has_advantage = P1

\* what analyze_point has done so far, r, and the emit_event call that
\* follows gave x
emitted_after(r, event_type, x) ==
    [em |-> x.em, emitted |-> Append(r.emitted, event_type),
     invoked |-> r.invoked \o x.invoked]

\* one more emit_event call inside analyze_point
then_emit(r, event_type) ==
    emitted_after(r, event_type, emit_tennis_event(r.em, event_type))

\* _detect_situational_events that emits BREAK_POINT whenever the Match is
\* at a break point
detect_break_point_always(r, m) ==
    IF is_break_point_situation(m)
    THEN [then_emit(r, "break_point") EXCEPT !.em.break_point_active = TRUE]
    ELSE r

\* _detect_situational_events, break point: emitted while
\* _break_point_active is False, which the method only ever sets to True
detect_break_point(r, m) ==
    IF is_break_point_situation(m) /\ ~r.em.break_point_active
    THEN [then_emit(r, "break_point") EXCEPT !.em.break_point_active = TRUE]
    ELSE r

\* _detect_situational_events, deuce: emitted when the game gets to deuce,
\* _deuce_active is reset when it is not at deuce
detect_deuce(r, m) ==
    IF m.current_game_score.is_deuce
    THEN ( IF r.em.deuce_active THEN r
           ELSE [then_emit(r, "deuce") EXCEPT !.em.deuce_active = TRUE] )
    ELSE [r EXCEPT !.em.deuce_active = FALSE]

\* _detect_situational_events, advantage: emitted at every call while a
\* player has the advantage
detect_advantage(r, m) ==
    IF m.current_game_score.has_advantage # None
    THEN then_emit(r, "advantage")
    ELSE r

\* EventManager._detect_situational_events for the Match m
detect_situational_events(r, m) ==
    detect_advantage(detect_deuce(detect_break_point(r, m), m), m)

\* analyze_point before it emitted anything
nothing_emitted(em) ==
    [em |-> em, emitted |-> <<>>, invoked |-> <<>>]

\* EventManager.analyze_point (auto_detection is True) for the Match m: the
\* event of the point's type, if it has one, then the situational events
analyze_point(em, m, point_type) ==
    detect_situational_events(
        IF classify_point_event(point_type) # None
        THEN then_emit(nothing_emitted(em), classify_point_event(point_type))
        ELSE nothing_emitted(em),
        m)

\* EventManager.clear_events
clear_events(em) ==
    [em EXCEPT !.events = 0, !.break_point_active = FALSE,
               !.deuce_active = FALSE]

\* ------------------------------------------------------------------------
\* MatchManager
\* ------------------------------------------------------------------------

\* the event types MatchManager passes to _emit_event
EventTypes ==
    {"match_started", "point_scored", "game_won", "set_won",
     "match_completed", "ace", "winner", "double_fault", "match_paused",
     "match_resumed"}

\* MatchManager.event_callbacks after TennisAnalyticsApp._setup_callbacks;
\* an event type without a key has the empty list
AppCallbacks ==
    [e \in EventTypes |->
        IF e = "point_scored" THEN <<OnPointScored>>
        ELSE IF e = "game_won" THEN <<OnGameWon>>
        ELSE <<>>]

\* ScoreManager.__init__, EventManager.__init__
NewScoreManager ==
    [point_history |-> <<>>, scoreboard |-> NewScoreboard,
     stats_cache |-> EmptyStats, cache_timestamp |-> 0,
     score_callbacks |-> <<>>]
NewEventManager ==
    [events |-> 0, event_callbacks |-> [e \in TennisEventTypes |-> <<>>],
     break_point_active |-> FALSE, deuce_active |-> FALSE]

\* a call: its name, how it ended, the event types it emitted and the
\* callbacks it called, in order
Call(op, result, emitted, invoked) ==
    [op |-> op, result |-> result, emitted |-> emitted, invoked |-> invoked]

\* what a callback gets to see of a MatchManager event: the Match as it is
\* when the callback runs, the winner and the type of the point
EventData(m, winner_player_id, point_type) ==
    [match |-> m, winner_player_id |-> winner_player_id,
     point_type |-> point_type]

\* what a callback of a MatchManager event can read of the Match when it
\* runs: the counters, the score of the game and of the set being played and
\* the length of the event log
Observed(m) ==
    [current_point |-> m.current_point, current_game |-> m.current_game,
     current_set |-> m.current_set, score |-> m.current_game_score,
     games |-> m.sets[m.current_set_score], events |-> m.events.len]

\* one callback called with event_data: whether it raised, the ScoreManager
\* it leaves, the callbacks called inside it. on_point_scored calls
\* ScoreManager.update_score with the point_data of the event as keywords
run_callback(callback, event_data, sm) ==
    IF callback = OnPointScored
    THEN update_score(sm, event_data.match, event_data.winner_player_id,
                      event_data.point_type, AppPointData)
    ELSE [raised |-> callback = Raiser, sm |-> sm, invoked |-> <<>>]

\* the loop of _emit_event over callbacks, where calling the first callback
\* gave r and the rest of the loop gave rest
called_in_order(callbacks, event_type, event_data, r, rest) ==
    [sm |-> rest.sm,
     invoked |-> <<Invocation(event_type, Head(callbacks), r.raised,
                              Observed(event_data.match))>>
                 \o r.invoked \o rest.invoked]

RECURSIVE emit_event_until_error(_, _, _, _)
\* the loop after its first callback gave r, when one try is around the
\* whole loop
until_error_after(callbacks, event_type, event_data, r) ==
    called_in_order(callbacks, event_type, event_data, r,
        IF r.raised
        THEN [sm |-> r.sm, invoked |-> <<>>]
        ELSE emit_event_until_error(Tail(callbacks), event_type, event_data,
                                    r.sm))

\* emit_event with one try around the loop: the first callback that raises
\* ends it
emit_event_until_error(callbacks, event_type, event_data, sm) ==
    IF callbacks = <<>>
    THEN [sm |-> sm, invoked |-> <<>>]
    ELSE until_error_after(callbacks, event_type, event_data,
                           run_callback(Head(callbacks), event_data, sm))

RECURSIVE emit_event(_, _, _, _)
\* the loop of _emit_event after its first callback gave r: the except
\* clause is inside the loop, the other callbacks are called whatever r is
emit_event_after(callbacks, event_type, event_data, r) ==
    called_in_order(callbacks, event_type, event_data, r,
        emit_event(Tail(callbacks), event_type, event_data, r.sm))

\* MatchManager._emit_event for the callbacks of event_type: every callback
\* is called, inside its own try
emit_event(callbacks, event_type, event_data, sm) ==
    IF callbacks = <<>>
    THEN [sm |-> sm, invoked |-> <<>>]
    ELSE emit_event_after(callbacks, event_type, event_data,
                          run_callback(Head(callbacks), event_data, sm))

\* what two runs of callbacks, one after the other, called and left
one_after_the_other(r, rest) ==
    [sm |-> rest.sm, invoked |-> r.invoked \o rest.invoked]

RECURSIVE emit_events(_, _, _, _)
\* the _emit_event calls that follow the first one, which gave r
emit_events_after(event_types, callbacks, event_data, r) ==
    one_after_the_other(r, emit_events(Tail(event_types), callbacks,
                                       event_data, r.sm))

\* _emit_event for each of event_types, in order
emit_events(event_types, callbacks, event_data, sm) ==
    IF event_types = <<>>
    THEN [sm |-> sm, invoked |-> <<>>]
    ELSE emit_events_after(event_types, callbacks, event_data,
             emit_event(callbacks[Head(event_types)], Head(event_types),
                        event_data, sm))

\* the call op emitted event_types and its callbacks gave r: the ScoreManager
\* is as they left it and the call is recorded
RecordCall(op, event_types, r) ==
    /\ score_manager' = r.sm
    /\ last_call' = Call(op, "ok", event_types, r.invoked)

\* a call that emitted event_types for the Match m: the callbacks run, the
\* call is recorded
EmitAndRecord(op, event_types, event_data) ==
    RecordCall(op, event_types,
               emit_events(event_types, event_callbacks, event_data,
                           score_manager))

\* a call that ended before it changed or emitted anything
Rejected(op, result) ==
    /\ last_call' = Call(op, result, <<>>, <<>>)
    /\ UNCHANGED <<match_vars, score_manager, updates>>

\* MatchManager.__init__ with Match.__post_init__, and the ScoreManager and
\* EventManager that TennisAnalyticsApp.setup_match creates with it
Init ==
    /\ match_format \in MatchFormats
    /\ tiebreak_type = "STANDARD"
    /\ status = "NOT_STARTED"
    /\ current_set = 1
    /\ current_game = 1
    /\ current_point = 1
    /\ serving_player = None
    /\ is_serving = [p \in PlayerIds |-> FALSE]
    /\ sets = <<NewSetScore>>
    /\ current_set_score = 1
    /\ current_game_score = NewGameScore
    /\ events = NoEvents
    /\ stats = [p \in PlayerIds |-> NewPlayerStats]
    /\ is_paused = FALSE
    /\ event_callbacks = AppCallbacks
    /\ score_manager = NewScoreManager
    /\ event_manager = NewEventManager
    /\ now = 0
    /\ last_call = Call("__init__", "ok", <<>>, <<>>)
    /\ last_stats = EmptyStats
    /\ updates = 0
    /\ side_calls = 0
    /\ last_winner = None
    /\ switches = 0
    /\ unknown_calls = 0
    /\ discarded = FALSE
    /\ position_history = [p \in PlayerIds |-> <<>>]
    /\ current_location = [p \in PlayerIds |-> None]
    /\ position_updates = 0
    /\ was_break_point = FALSE

\* the call passes an id the bounds of the run allow
IdAllowed(player_id) ==
    player_id \in PlayerIds \/ unknown_calls < MaxUnknownIds

CountId(player_id) ==
    unknown_calls' = IF player_id \in PlayerIds
                     THEN unknown_calls ELSE unknown_calls + 1

\* start_match_allowed that lets every call through
start_match_allowed_always(st) ==
    TRUE

\* MatchManager.start_match: the test that lets the call through
start_match_allowed(st) ==
    st = "NOT_STARTED"

\* add_point_allowed that only turns down a match that is over
add_point_allowed_before_start(st) ==
    st # "COMPLETED"

\* add_point_allowed that only turns down a match that was not started
add_point_allowed_after_end(st) ==
    st # "NOT_STARTED"

\* MatchManager.add_point: the test that lets the call through
add_point_allowed(st) ==
    st = "IN_PROGRESS"

\* point_ignored that never ignores a point
point_ignored_never(paused) ==
    FALSE

\* the test of is_paused turned round: points are ignored while the match is
\* not paused
point_ignored_unless_paused(paused) ==
    ~paused

\* MatchManager.add_point: the test that makes the call a logged no-op
point_ignored(paused) ==
    paused

\* MatchManager._emit_point_events: the event types passed to _emit_event,
\* in order, for the Match m as add_point left it
emit_point_events(m, point_type) ==
    <<"point_scored">>
    \o ( IF m.current_game_score.is_completed
         THEN <<"game_won">>
              \o ( IF CurrentSet(m).is_completed
                   THEN <<"set_won">>
                        \o ( IF m.status = "COMPLETED"
                             THEN <<"match_completed">> ELSE <<>> )
                   ELSE <<>> )
         ELSE <<>> )
    \o ( IF point_type = "ace" THEN <<"ace">>
         ELSE IF point_type = "winner" THEN <<"winner">>
         ELSE IF point_type = "double_fault" THEN <<"double_fault">>
         ELSE <<>> )

\* MatchManager.start_match on a match that was not started
MatchManager_start_match(serving_player_id) ==
    /\ start_match_allowed(status)
    /\ IdAllowed(serving_player_id)
    /\ LET m == start_match(MatchState, serving_player_id)
       IN  /\ SetMatch(m)
           /\ EmitAndRecord("start_match", <<"match_started">>,
                            EventData(m, None, None))
    /\ updates' = 0
    /\ CountId(serving_player_id)
    /\ UNCHANGED <<is_paused, last_winner, switches, listener_vars>>
    /\ UNCHANGED discarded

\* MatchManager.start_match on a match that was started: raises ValueError
MatchManager_start_match_raises(serving_player_id) ==
    /\ ~start_match_allowed(status)
    /\ IdAllowed(serving_player_id)
    /\ Rejected("start_match", "ValueError")
    /\ CountId(serving_player_id)
    /\ UNCHANGED <<is_paused, last_winner, switches, listener_vars>>
    /\ UNCHANGED discarded

\* MatchManager.add_point on a match in progress that is not paused
MatchManager_add_point(winner_player_id, point_type) ==
    /\ add_point_allowed(status)
    /\ ~point_ignored(is_paused)
    /\ current_point <= MaxPoint
    /\ last_winner \in {None, winner_player_id} \/ switches < MaxSwitches
    /\ IdAllowed(winner_player_id)
    /\ LET m == add_point(MatchState, winner_player_id, point_type)
       IN  /\ SetMatch(m)
           /\ EmitAndRecord("add_point", emit_point_events(m, point_type),
                            EventData(m, winner_player_id, point_type))
    /\ updates' = 0
    /\ last_winner' = winner_player_id
    /\ switches' = IF last_winner \in {None, winner_player_id}
                   THEN switches ELSE switches + 1
    /\ CountId(winner_player_id)
    /\ UNCHANGED <<is_paused, listener_vars>>
    /\ UNCHANGED discarded

\* MatchManager.add_point on a match that is not in progress: raises
\* ValueError, before is_paused is looked at
MatchManager_add_point_raises(winner_player_id, point_type) ==
    /\ ~add_point_allowed(status)
    /\ IdAllowed(winner_player_id)
    /\ Rejected("add_point", "ValueError")
    /\ CountId(winner_player_id)
    /\ UNCHANGED <<is_paused, last_winner, switches, listener_vars>>
    /\ UNCHANGED discarded

\* MatchManager.add_point on a match in progress that is paused: logs a
\* warning and returns
MatchManager_add_point_paused(winner_player_id, point_type) ==
    /\ add_point_allowed(status)
    /\ point_ignored(is_paused)
    /\ IdAllowed(winner_player_id)
    /\ Rejected("add_point", "ignored")
    /\ CountId(winner_player_id)
    /\ UNCHANGED <<is_paused, last_winner, switches, listener_vars>>
    /\ discarded' = TRUE

\* MatchManager.pause_match
MatchManager_pause_match ==
    /\ is_paused' = TRUE
    /\ EmitAndRecord("pause_match", <<"match_paused">>,
                     EventData(MatchState, None, None))
    /\ UNCHANGED <<match_vars, updates, last_winner, switches, unknown_calls,
                   listener_vars>>
    /\ UNCHANGED discarded

\* MatchManager.resume_match
MatchManager_resume_match ==
    /\ is_paused' = FALSE
    /\ EmitAndRecord("resume_match", <<"match_resumed">>,
                     EventData(MatchState, None, None))
    /\ UNCHANGED <<match_vars, updates, last_winner, switches, unknown_calls,
                   listener_vars>>
    /\ UNCHANGED discarded

\* a listener of the ace event, registered after the application's
\* callbacks, that calls MatchManager.add_point for the same winner
Reenterer == "reenterer"

\* the add_point call of the listener, made when add_point left the Match
\* m: it goes through the same tests as any call (is_paused is False, or the
\* listener would not run); on a match that is over it raises ValueError,
\* which _emit_event catches
reentered(m, winner_player_id) ==
    IF add_point_allowed(m.status)
    THEN add_point(m, winner_player_id, "normal")
    ELSE m

\* the callbacks the listener's add_point call runs, for the Match m2 it
\* leaves
nested_events(m1, m2, winner_player_id, sm) ==
    IF add_point_allowed(m1.status)
    THEN emit_events(emit_point_events(m2, "normal"), event_callbacks,
                     EventData(m2, winner_player_id, "normal"), sm)
    ELSE [sm |-> sm, invoked |-> <<>>]

\* the callbacks of the whole call: those of the outer call gave outer, the
\* listener was called last, for ace, and its add_point call gave nested
after_reentry(m1, outer, nested) ==
    [sm |-> nested.sm,
     invoked |-> outer.invoked
                 \o <<Invocation("ace", Reenterer,
                                 ~add_point_allowed(m1.status), Observed(m1))>>
                 \o nested.invoked]

\* _emit_point_events of the outer call, which left the Match m1, with the
\* listener's call inside, which left m2
reentry_callbacks(m1, m2, winner_player_id, outer) ==
    after_reentry(m1, outer,
                  nested_events(m1, m2, winner_player_id, outer.sm))

\* the outer call left m1, the listener's call m2
add_point_reentered(m1, m2, winner_player_id) ==
    /\ SetMatch(m2)
    /\ RecordCall("add_point", emit_point_events(m1, "ace"),
                  reentry_callbacks(m1, m2, winner_player_id,
                      emit_events(emit_point_events(m1, "ace"),
                                  event_callbacks,
                                  EventData(m1, winner_player_id, "ace"),
                                  score_manager)))

\* MatchManager.add_point for an ace, on a match in progress that is not
\* paused, with the listener registered: _emit_event calls it while the
\* add_point call is still running
MatchManager_add_point_reentered(winner_player_id) ==
    /\ add_point_allowed(status)
    /\ ~point_ignored(is_paused)
    /\ last_winner \in {None, winner_player_id} \/ switches < MaxSwitches
    /\ add_point_reentered(
           add_point(MatchState, winner_player_id, "ace"),
           reentered(add_point(MatchState, winner_player_id, "ace"),
                     winner_player_id),
           winner_player_id)
    /\ updates' = 0
    /\ last_winner' = winner_player_id
    /\ switches' = IF last_winner \in {None, winner_player_id}
                   THEN switches ELSE switches + 1
    /\ UNCHANGED <<is_paused, unknown_calls, discarded, listener_vars>>

\* Player.max_history_size
max_history_size == 100

\* Player.update_position that drops the position it has just appended when
\* the history is over its size
evict_newest(history) ==
    IF Len(history) > max_history_size
    THEN SubSeq(history, 1, Len(history) - 1)
    ELSE history

\* Player.update_position: position_history.pop(0) when the history is over
\* its size
evict_oldest(history) ==
    IF Len(history) > max_history_size THEN Tail(history) ELSE history

\* Player.update_position: position_history after new_position is appended
update_position(history, new_position) ==
    evict_oldest(Append(history, new_position))

\* MatchManager.update_player_position: player1 if the id is player1's,
\* player2 for every other id
updated_player(player_id) ==
    IF player_id = P1 THEN P1 ELSE P2

\* MatchManager.update_player_position; the PlayerPosition2D it creates is
\* modelled by its number of arrival
MatchManager_update_player_position(player_id) ==
    /\ position_updates < MaxPositionUpdates
    /\ position_updates < MaxMixedUpdates \/ player_id = P1
    /\ IdAllowed(player_id)
    /\ position_updates' = position_updates + 1
    /\ current_location' =
           [current_location EXCEPT ![updated_player(player_id)] =
               position_updates + 1]
    /\ position_history' =
           [position_history EXCEPT ![updated_player(player_id)] =
               update_position(@, position_updates + 1)]
    /\ last_call' = Call("update_player_position", "ok", <<>>, <<>>)
    /\ CountId(player_id)
    /\ UNCHANGED <<match_vars, is_paused, last_winner, switches, discarded,
                   event_callbacks, score_manager, event_manager, now,
                   last_stats, updates, side_calls, was_break_point>>

\* one more call to an object other than the MatchManager
SideCall ==
    /\ side_calls < MaxSideCalls
    /\ side_calls' = side_calls + 1

\* a call to an object other than the MatchManager: the Match and the
\* bookkeeping of the MatchManager calls stay as they are
OutsideMatchManager ==
    /\ SideCall
    /\ UNCHANGED <<match_vars, is_paused, last_winner, switches, unknown_calls,
                   discarded, position_history, current_location,
                   position_updates, was_break_point>>

\* MatchManager.register_event_callback
MatchManager_register_event_callback(event_type, callback) ==
    /\ event_callbacks' =
           [event_callbacks EXCEPT ![event_type] = Append(@, callback)]
    /\ last_call' = Call("register_event_callback", "ok", <<>>, <<>>)
    /\ OutsideMatchManager
    /\ UNCHANGED <<score_manager, event_manager, now, last_stats, updates>>

\* ScoreManager.register_score_callback for score_updated
ScoreManager_register_score_callback(callback) ==
    /\ score_manager' =
           [score_manager EXCEPT !.score_callbacks = Append(@, callback)]
    /\ last_call' = Call("register_score_callback", "ok", <<>>, <<>>)
    /\ OutsideMatchManager
    /\ UNCHANGED <<event_callbacks, event_manager, now, last_stats, updates>>

\* update_score returned or raised r
update_score_ended(r) ==
    /\ score_manager' = r.sm
    /\ last_call' = IF r.raised
                    THEN Call("update_score", "TypeError", <<>>, <<>>)
                    ELSE Call("update_score", "ok", <<"score_updated">>,
                              r.invoked)
    /\ updates' = IF r.raised THEN updates ELSE updates + 1

\* ScoreManager.update_score, called with the Match as it is
ScoreManager_update_score(winner_player_id, point_type, kwargs) ==
    /\ update_score_ended(update_score(score_manager, MatchState,
                                       winner_player_id, point_type, kwargs))
    /\ OutsideMatchManager
    /\ UNCHANGED <<event_callbacks, event_manager, now, last_stats>>

\* ScoreManager.get_key_statistics
ScoreManager_get_key_statistics ==
    LET r == get_key_statistics(score_manager, now)
    IN  /\ score_manager' = r.sm
        /\ last_stats' = r.value
        /\ last_call' = Call("get_key_statistics", "ok", <<>>, <<>>)
        /\ OutsideMatchManager
        /\ UNCHANGED <<event_callbacks, event_manager, now, updates>>

\* Scoreboard.update_from_match on the scoreboard of the ScoreManager,
\* with the Match as it is
Scoreboard_update_from_match ==
    /\ score_manager' =
           [score_manager EXCEPT !.scoreboard = update_from_match(@, MatchState)]
    /\ updates' = updates + 1
    /\ last_call' = Call("update_from_match", "ok", <<>>, <<>>)
    /\ OutsideMatchManager
    /\ UNCHANGED <<event_callbacks, event_manager, now, last_stats>>

\* what a call to the EventManager leaves alone
outside_event_manager ==
    <<match_vars, is_paused, last_winner, switches, unknown_calls, discarded,
      position_history, current_location, position_updates, event_callbacks,
      score_manager, now, last_stats, updates>>

\* EventManager.register_event_callback
EventManager_register_event_callback(event_type, callback) ==
    /\ event_manager' =
           [event_manager EXCEPT
               !.event_callbacks[event_type] = Append(@, callback)]
    /\ last_call' = Call("register_tennis_event_callback", "ok", <<>>, <<>>)
    /\ UNCHANGED <<outside_event_manager, was_break_point>>

\* emit_event returned r
emit_event_ended(event_type, r) ==
    /\ event_manager' = r.em
    /\ last_call' = Call("emit_event", "ok", <<event_type>>, r.invoked)

\* EventManager.emit_event
EventManager_emit_event(event_type) ==
    /\ emit_event_ended(event_type,
                        emit_tennis_event(event_manager, event_type))
    /\ UNCHANGED <<outside_event_manager, was_break_point>>

\* analyze_point returned r
analyze_point_ended(r) ==
    /\ event_manager' = r.em
    /\ last_call' = Call("analyze_point", "ok", r.emitted, r.invoked)

\* EventManager.analyze_point, called with the Match as it is
EventManager_analyze_point(point_type) ==
    /\ analyze_point_ended(analyze_point(event_manager, MatchState,
                                         point_type))
    /\ was_break_point' = is_break_point_situation(MatchState)
    /\ UNCHANGED outside_event_manager

\* EventManager.clear_events
EventManager_clear_events ==
    /\ event_manager' = clear_events(event_manager)
    /\ last_call' = Call("clear_events", "ok", <<>>, <<>>)
    /\ UNCHANGED <<outside_event_manager, was_break_point>>

\* time passes between two calls
Tick ==
    /\ now' = now + TickSeconds
    /\ OutsideMatchManager
    /\ UNCHANGED <<event_callbacks, score_manager, event_manager, last_call,
                   last_stats, updates>>

\* the calls that are let through, with the two players' ids
Next ==
    \/ \E p \in PlayerIds : MatchManager_start_match(p)
    \/ \E w \in PlayerIds, t \in PointTypes : MatchManager_add_point(w, t)

\* every call, with every id
NextCalls ==
    \/ \E p \in AnyIds : MatchManager_start_match(p)
    \/ \E p \in AnyIds : MatchManager_start_match_raises(p)
    \/ \E w \in AnyIds, t \in PointTypes :
            MatchManager_add_point(w, t) /\ switches' <= MaxCallSwitches
    \/ \E w \in AnyIds, t \in PointTypes : MatchManager_add_point_raises(w, t)
    \/ \E w \in AnyIds, t \in PointTypes : MatchManager_add_point_paused(w, t)
    \/ MatchManager_pause_match
    \/ MatchManager_resume_match

Spec == Init /\ [][Next]_vars

\* the point types of the runs with listeners
ScorePointTypes == {"normal", "ace"}

\* the point type of the direct calls of ScoreManager.update_score
ScoreUpdateTypes == {"ace"}

\* the first points of a match served by player1, with listeners registered
\* before the match starts and with calls to the ScoreManager, its
\* Scoreboard and the EventManager in between
NextScore ==
    \/ MatchManager_start_match(P1)
    \/ \E w \in PlayerIds, t \in ScorePointTypes :
            current_point <= MaxScorePoint /\ MatchManager_add_point(w, t)
    \/ \E e \in {"point_scored", "ace"}, c \in Listeners :
            status = "NOT_STARTED" /\ MatchManager_register_event_callback(e, c)
    \/ status = "NOT_STARTED" /\ ScoreManager_register_score_callback(Listener)
    \/ \E w \in PlayerIds, t \in ScoreUpdateTypes, k \in KwargsChoices :
            ScoreManager_update_score(w, t, k)
    \/ ScoreManager_get_key_statistics
    \/ Scoreboard_update_from_match
    \/ /\ status = "NOT_STARTED"
       /\ SideCall
       /\ EventManager_register_event_callback("ace", Listener)
    \/ SideCall /\ EventManager_emit_event("ace")
    \/ Tick

\* the point types of the analyze_point calls
AnalyzedPointTypes == {"normal", "ace"}

\* the event types callbacks are registered for with the EventManager
ListenedEventTypes == {"ace", "break_point"}

\* callbacks registered with em so far
registered(em) ==
    Len(em.event_callbacks["ace"]) + Len(em.event_callbacks["break_point"])

\* the first games of a match served by player1, with callbacks registered
\* with the EventManager before the match starts and with emit_event,
\* analyze_point and clear_events called at any time
NextEvents ==
    \/ MatchManager_start_match(P1)
    \/ \E w \in PlayerIds :
            current_point <= MaxEventPoint /\ MatchManager_add_point(w, "normal")
    \/ \E e \in ListenedEventTypes, c \in Listeners :
            /\ status = "NOT_STARTED"
            /\ registered(event_manager) < MaxEventListeners
            /\ EventManager_register_event_callback(e, c)
            /\ UNCHANGED side_calls
    \/ /\ event_manager.events < MaxEvents
       /\ EventManager_emit_event("ace")
       /\ UNCHANGED side_calls
    \/ \E t \in AnalyzedPointTypes :
            /\ EventManager_analyze_point(t)
            /\ event_manager'.events <= MaxEvents
            /\ UNCHANGED side_calls
    \/ EventManager_clear_events /\ UNCHANGED side_calls

SpecCalls == Init /\ [][NextCalls]_vars

\* the first points of a match with the players' positions updated at any
\* time
NextPositions ==
    \/ MatchManager_start_match(P1)
    \/ \E w \in PlayerIds :
            /\ current_point <= MaxPositionPoint
            /\ MatchManager_add_point(w, "normal")
    \/ \E p \in AnyIds : MatchManager_update_player_position(p)

\* the first points of a match with a listener that calls add_point when an
\* ace is announced
NextReentry ==
    \/ MatchManager_start_match(P1)
    \/ \E w \in PlayerIds :
            /\ current_point <= MaxReentryPoint
            /\ MatchManager_add_point(w, "normal")
    \/ \E w \in PlayerIds :
            /\ current_point <= MaxReentryPoint
            /\ MatchManager_add_point_reentered(w)

SpecEvents == Init /\ [][NextEvents]_vars

SpecReentry == Init /\ [][NextReentry]_vars

SpecPositions == Init /\ [][NextPositions]_vars

SpecScore == Init /\ [][NextScore]_vars

\* ------------------------------------------------------------------------
\* Properties
\* ------------------------------------------------------------------------

Other(p) == IF p = P1 THEN P2 ELSE P1

\* points of player p in game score g, games of player p in set score s
PointsOf(g, p) == IF p = P1 THEN g.player1_points ELSE g.player2_points
GamesOf(s, p) == IF p = P1 THEN s.player1_games ELSE s.player2_games
TiebreakOf(s, p) == IF p = P1 THEN s.player1_tiebreak ELSE s.player2_tiebreak

\* this step is an add_point call that was accepted, with winner w
PointWonBy(w) == current_point' = current_point + 1 /\ last_winner' = w

\* this step completes a game for w / completes no game: the set that was
\* current before the step is still sets[current_set_score] after it
GameWonBy(w) ==
    /\ GamesOf(sets'[current_set_score], w)
            = GamesOf(sets[current_set_score], w) + 1
    /\ GamesOf(sets'[current_set_score], Other(w))
            = GamesOf(sets[current_set_score], Other(w))
NoGameWon ==
    /\ \A p \in PlayerIds : GamesOf(sets'[current_set_score], p)
                                = GamesOf(sets[current_set_score], p)
    /\ ~current_game_score'.is_completed
    /\ current_game' = current_game

\* the set that is current is not in its tiebreak
StandardGame == ~sets[current_set_score].is_tiebreak

MajorityThreshold == IF match_format = "BEST_OF_3" THEN 2 ELSE 3

CompletedSetsWon(p) ==
    Cardinality({i \in 1..Len(sets) : sets[i].is_completed /\ sets[i].winner = p})

\* C1: the completed sets won by each player number between 0 and the
\* format's majority (2 of 3, 3 of 5), and the match is COMPLETED exactly when
\* one player has won that many sets.
C1_SetsWonAndCompletion ==
    /\ \A p \in PlayerIds : CompletedSetsWon(p) \in 0..MajorityThreshold
    /\ status = "COMPLETED"
         <=> \E p \in PlayerIds : CompletedSetsWon(p) = MajorityThreshold

\* a best-of-5 match that was played to its end
C1_Witness ==
    /\ match_format = "BEST_OF_5"
    /\ status = "COMPLETED"
    /\ CompletedSetsWon(P1) = 3

\* C2: at 40-40 with the opponent holding advantage, a point won by the other
\* player clears the advantage: nobody holds it, is_deuce stays true, both
\* stay at 40, the game is not completed.
C2_AdvantageCleared ==
    [][\A w \in PlayerIds :
        ( /\ PointWonBy(w)
          /\ StandardGame
          /\ current_game_score.player1_points = 40
          /\ current_game_score.player2_points = 40
          /\ current_game_score.has_advantage = Other(w) )
        => ( /\ current_game_score'.has_advantage = None
             /\ current_game_score'.is_deuce
             /\ current_game_score'.player1_points = 40
             /\ current_game_score'.player2_points = 40
             /\ NoGameWon )]_vars

\* C3: a point won by the player who holds advantage completes the game for
\* that player in the same call: their games in the current set grow by 1.
C3_AdvantageHolderWinsGame ==
    [][\A w \in PlayerIds :
        ( /\ PointWonBy(w)
          /\ StandardGame
          /\ current_game_score.has_advantage = w )
        => GameWonBy(w)]_vars

C5_GameScoreRange ==
    /\ current_game_score.player1_points \in {0, 15, 30, 40}
    /\ current_game_score.player2_points \in {0, 15, 30, 40}
    /\ current_game_score.has_advantage \in PlayerIds \cup {None}
    /\ current_game_score.has_advantage # None
         => /\ current_game_score.player1_points = 40
            /\ current_game_score.player2_points = 40

\* advantage is held, by the player who did not hold it one point before
C5_Witness ==
    /\ current_game_score.has_advantage = P1
    /\ last_winner = P1
    /\ switches = 2
    /\ current_game_score.player1_points = 40
    /\ current_game_score.player2_points = 40
\* C6: whenever both players are at 40, is_deuce is true (the point that
\* brings the game to 40-40 sets it in the same call).
C6_DeuceAtFortyAll ==
    ( /\ current_game_score.player1_points = 40
      /\ current_game_score.player2_points = 40 )
    => current_game_score.is_deuce

\* C7: in every set, is_tiebreak is true exactly from the call on that brought
\* the set to 6 games each: never before, and never in a set in which the two
\* players have not both reached 6 games.
C7_TiebreakEntry ==
    \A i \in 1..Len(sets) :
        sets[i].is_tiebreak
            <=> (sets[i].player1_games >= 6 /\ sets[i].player2_games >= 6)

\* the point that made it 6 games each was just played
C7_Witness ==
    /\ sets[current_set_score].player1_games = 6
    /\ sets[current_set_score].player2_games = 6
    /\ sets[current_set_score].is_tiebreak
    /\ current_game_score = NewGameScore

\* C8: once the current set is in its tiebreak, an accepted point adds exactly
\* 1 to the winner's tiebreak points in that set and leaves the 0/15/30/40
\* ladder of current_game_score where it was.
C8_TiebreakPoints ==
    [][\A w \in PlayerIds :
        ( /\ PointWonBy(w)
          /\ sets[current_set_score].is_tiebreak )
        => /\ TiebreakOf(sets'[current_set_score], w)
                = TiebreakOf(sets[current_set_score], w) + 1
           /\ TiebreakOf(sets'[current_set_score], Other(w))
                = TiebreakOf(sets[current_set_score], Other(w))
           /\ current_game_score'.player1_points
                = current_game_score.player1_points
           /\ current_game_score'.player2_points
                = current_game_score.player2_points]_vars

TiebreakThreshold == IF tiebreak_type = "SUPER" THEN 10 ELSE 7

\* set score s has its tiebreak won: threshold reached with a lead of 2
TiebreakWon(s) ==
    \E p \in PlayerIds :
        /\ TiebreakOf(s, p) >= TiebreakThreshold
        /\ TiebreakOf(s, p) - TiebreakOf(s, Other(p)) >= 2

\* C9: a set that reached 6-6 is completed exactly when its tiebreak is won
\* (7 points, 10 for SUPER, with a lead of 2), its winner is the side with more
\* tiebreak points, and the set after it starts with is_tiebreak false.
C9_TiebreakCompletesSet ==
    \A i \in 1..Len(sets) :
        sets[i].is_tiebreak =>
            /\ sets[i].is_completed <=> TiebreakWon(sets[i])
            /\ sets[i].is_completed =>
                  /\ sets[i].winner \in PlayerIds
                  /\ TiebreakOf(sets[i], sets[i].winner)
                        > TiebreakOf(sets[i], Other(sets[i].winner))
            /\ ( i < Len(sets) /\ sets[i + 1].is_tiebreak )
                  => ( /\ sets[i + 1].player1_games >= 6
                       /\ sets[i + 1].player2_games >= 6 )

\* C10: the winner recorded for a completed set is the player with more games
\* in that set, never the player with fewer.
C10_SetWinnerHasMoreGames ==
    \A i \in 1..Len(sets) :
        sets[i].is_completed =>
            /\ sets[i].winner \in PlayerIds
            /\ GamesOf(sets[i], sets[i].winner)
                  > GamesOf(sets[i], Other(sets[i].winner))
\* set score s is decided by games: at least 6 with a lead of at least 2
SetDecidedByGames(s) ==
    \E p \in PlayerIds :
        /\ GamesOf(s, p) >= 6
        /\ GamesOf(s, p) - GamesOf(s, Other(p)) >= 2

\* C11: every completed set has a side with at least 6 games and a lead of at
\* least 2, or went to 6-6 and has its tiebreak won; and a set that is decided
\* by games is marked completed by the call that decided it.
C11_CompletedSets ==
    \A i \in 1..Len(sets) :
        /\ sets[i].is_completed =>
              \/ SetDecidedByGames(sets[i])
              \/ (sets[i].is_tiebreak /\ TiebreakWon(sets[i]))
        /\ SetDecidedByGames(sets[i]) => sets[i].is_completed

\* a set was completed at 7-5 and the next one is being played
C11_Witness ==
    /\ Len(sets) = 2
    /\ sets[1].is_completed
    /\ sets[1].player1_games = 5
    /\ sets[1].player2_games = 7

\* C12: add_point on a match that was not started fails with an error and
\* leaves the Match (status, scores, counters, server, statistics, event
\* log) as it was.
C12_PointBeforeStart ==
    [][( status = "NOT_STARTED" /\ last_call'.op = "add_point" )
        => /\ last_call'.result = "ValueError"
           /\ UNCHANGED match_vars]_vars

\* add_point was called on a match that was not started
C12_Witness ==
    /\ status = "NOT_STARTED"
    /\ last_call.op = "add_point"
    /\ last_call.result = "ValueError"

\* C13: once the match is COMPLETED the status never changes again, every
\* later add_point is turned down, and the Match stays as it is under every
\* later add_point, start_match, pause_match and resume_match.
C13_CompletedIsFinal ==
    [][status = "COMPLETED"
        => /\ UNCHANGED match_vars
           /\ last_call'.op = "add_point" => last_call'.result = "ValueError"]_vars

\* a completed match was paused and then given another point
C13_Witness ==
    /\ status = "COMPLETED"
    /\ is_paused
    /\ last_call.op = "add_point"
    /\ last_call.result = "ValueError"

\* C14: start_match on a match that was not started succeeds: the match is
\* IN_PROGRESS, the server is the id passed, one match_start event is
\* appended; on any other match it fails and leaves the Match as it was.
C14_Start ==
    [][last_call'.op = "start_match"
        => IF status = "NOT_STARTED"
           THEN /\ last_call'.result = "ok"
                /\ status' = "IN_PROGRESS"
                /\ serving_player' \in AnyIds
                /\ events'.len = events.len + 1
                /\ events'.last.event_type = "match_start"
                /\ events'.last.player_id = serving_player'
                /\ UNCHANGED <<sets, current_set_score, current_game_score,
                               current_set, current_game, current_point, stats>>
           ELSE /\ last_call'.result = "ValueError"
                /\ UNCHANGED match_vars]_vars

\* start_match was called a second time, after points were played
C14_Witness ==
    /\ status = "IN_PROGRESS"
    /\ current_point > 1
    /\ events.last.event_type # "match_start"
    /\ last_call.op = "start_match"
    /\ last_call.result = "ValueError"

\* C15: add_point with a winner id that names neither player fails and
\* leaves the Match as it was: no points, games, statistics or events change.
C15_UnknownWinner ==
    [][( last_call'.op = "add_point" /\ unknown_calls' = unknown_calls + 1 )
        => /\ last_call'.result # "ok"
           /\ UNCHANGED match_vars]_vars
\* the point won by w completes the game being played
CompletesGame(w) ==
    add_point_to_game(current_game_score, w).is_completed

\* C16: serving_player changes to the other player in exactly the add_point
\* calls that complete a game, a game that completes a set included; a point
\* that completes no game leaves it unchanged.
C16_ServerSwitch ==
    [][\A w \in PlayerIds :
          PointWonBy(w)
          => IF CompletesGame(w)
             THEN /\ serving_player' = Other(serving_player)
                  /\ serving_player' # serving_player
             ELSE UNCHANGED serving_player]_vars

\* the first set was won 6-0 by the last point: six games completed, the
\* sixth one completing the set, and the serve is with player2 again
C16_Witness ==
    /\ last_call.op = "add_point"
    /\ current_set = 2
    /\ sets[1].player1_games = 6
    /\ sets[1].player2_games = 0
    /\ sets[2] = NewSetScore
    /\ current_game_score = NewGameScore
    /\ serving_player = P2

\* C17: in every state after the match was started exactly one of the two
\* is_serving flags is true, and it is the flag of the player that
\* serving_player names.
C17_OneServer ==
    status # "NOT_STARTED"
    => \E p \in PlayerIds :
          /\ is_serving[p]
          /\ ~is_serving[Other(p)]
          /\ serving_player = p

\* C18: a point that completes a game without completing the set adds one
\* game to the game winner in the current set and none to the other player,
\* switches the server, adds one to current_game and resets
\* current_game_score to 0-0 with no deuce and no advantage.
C18_GameCompleted ==
    [][\A w \in PlayerIds :
          ( /\ PointWonBy(w)
            /\ CompletesGame(w)
            /\ ~sets'[current_set_score].is_completed )
          => /\ GameWonBy(w)
             /\ serving_player' = Other(serving_player)
             /\ is_serving' = [p \in PlayerIds |-> p = Other(serving_player)]
             /\ current_game' = current_game + 1
             /\ current_game_score' = NewGameScore
             /\ current_set' = current_set
             /\ Len(sets') = Len(sets)]_vars

\* the sixth game of the first set was just completed, for 3-3
C18_Witness ==
    /\ last_call.op = "add_point"
    /\ current_set = 1
    /\ sets[1].player1_games = 3
    /\ sets[1].player2_games = 3
    /\ current_game = 7
    /\ current_game_score = NewGameScore

\* C19: sets has exactly current_set entries, current_set_score is the last
\* of them, every entry but the last is completed, and the last one is
\* completed only if the match is COMPLETED.
C19_SetsList ==
    /\ Len(sets) = current_set
    /\ current_set_score = Len(sets)
    /\ \A i \in 1..(Len(sets) - 1) : sets[i].is_completed
    /\ sets[Len(sets)].is_completed => status = "COMPLETED"

\* a match over in three sets, one set to two
C19_Witness ==
    /\ status = "COMPLETED"
    /\ current_set = 3
    /\ sets[1].winner # sets[2].winner
    /\ sets[3].is_completed

\* C20, as stated: while is_paused is true add_point does not fail, changes
\* nothing in the Match and calls no callback.
C20_PausedNeverFails ==
    [][( is_paused /\ last_call'.op = "add_point" )
        => /\ last_call'.result # "ValueError"
           /\ last_call'.emitted = <<>>
           /\ UNCHANGED match_vars]_vars

\* C20, amended: while is_paused is true add_point changes nothing in the
\* Match and calls no callback; on a match in progress it does not fail, on
\* any other match it fails with ValueError.
C20_PausedPoint ==
    [][( is_paused /\ last_call'.op = "add_point" )
        => /\ last_call'.result = IF status = "IN_PROGRESS"
                                  THEN "ignored" ELSE "ValueError"
           /\ last_call'.emitted = <<>>
           /\ UNCHANGED match_vars]_vars

\* a point was given to a paused match in progress, after points were played
C20_Witness ==
    /\ is_paused
    /\ status = "IN_PROGRESS"
    /\ current_point > 1
    /\ last_call.op = "add_point"
    /\ last_call.result = "ignored"
\* the call made by this step passed event type e to _emit_event
EmittedNext(e) ==
    \E i \in 1..Len(last_call'.emitted) : last_call'.emitted[i] = e

\* this step completes the set that was current before it
SetCompletedNext ==
    /\ ~sets[current_set_score].is_completed
    /\ sets'[current_set_score].is_completed

\* C21: an accepted add_point call invokes the game_won callbacks if and only
\* if the point completed a game, and the set_won callbacks if and only if
\* the point completed a set.
C21_GameAndSetCallbacks ==
    [][\A w \in PlayerIds :
          PointWonBy(w)
          => /\ EmittedNext("game_won") <=> CompletesGame(w)
             /\ EmittedNext("set_won") <=> SetCompletedNext]_vars

\* C22: the match_completed callbacks are invoked by the add_point call in
\* which status becomes COMPLETED, and by no call that leaves the match
\* uncompleted.
C22_MatchCompletedCallback ==
    [][/\ ( status # "COMPLETED" /\ status' = "COMPLETED" )
            => EmittedNext("match_completed")
       /\ ( last_call' # last_call /\ EmittedNext("match_completed") )
            => ( status # "COMPLETED" /\ status' = "COMPLETED" )]_vars
\* the Match with one more game for player p in the current set
WithGameFor(m, p) ==
    IF p = P1
    THEN [m EXCEPT !.sets[m.current_set_score].player1_games = @ + 1]
    ELSE [m EXCEPT !.sets[m.current_set_score].player2_games = @ + 1]

\* player p would complete the current set by winning the game in progress
HoldsSetPoint(p) ==
    is_set_completed(WithGameFor(MatchState, p))

\* C27: with a server set, the break-point flag is true if and only if the
\* receiver would win the game in progress by winning the next point.
C27_BreakPoint ==
    serving_player \in PlayerIds
    => ( is_break_point(MatchState)
         <=> add_point_to_game(current_game_score,
                               Other(serving_player)).is_completed )

\* C28: the set-point flag is true if and only if there is a player who
\* would complete the current set, under is_set_completed, by winning the
\* game in progress.
C28_SetPoint ==
    is_set_point(MatchState) <=> \E p \in PlayerIds : HoldsSetPoint(p)

\* set point at 6-5 in the second set: player1 completes the set by winning
\* the game, player2 only reaches 6-6
C28_Witness ==
    /\ status = "IN_PROGRESS"
    /\ Len(sets) = 2
    /\ sets[2].player1_games = 6
    /\ sets[2].player2_games = 5
    /\ is_set_point(MatchState)
    /\ ~HoldsSetPoint(P2)

\* C29: the match-point flag is true if and only if a player who holds set
\* point is one set from the format's majority; it is false when only the
\* other player is.
C29_MatchPoint ==
    is_match_point(MatchState)
    <=> \E p \in PlayerIds :
           /\ HoldsSetPoint(p)
           /\ CompletedSetsWon(p) = MajorityThreshold - 1

\* the callback and the event of each call in invoked that MatchManager
\* made itself
CalledByMatchManager(invoked) ==
    LET own == SelectSeq(invoked, LAMBDA v : v.event # "score_updated")
    IN  [i \in 1..Len(own) |->
            [event |-> own[i].event, callback |-> own[i].callback]]

RECURSIVE RegisteredFor(_, _)
\* the callbacks registered for each of event_types, in the order of
\* event_types and, for one event type, in the order of registration
RegisteredFor(event_types, callbacks) ==
    IF event_types = <<>>
    THEN <<>>
    ELSE [i \in 1..Len(callbacks[Head(event_types)]) |->
             [event |-> Head(event_types),
              callback |-> callbacks[Head(event_types)][i]]]
         \o RegisteredFor(Tail(event_types), callbacks)

\* C23: an accepted add_point call returns normally, leaves the Match as the
\* point alone makes it, and calls every callback registered for every event
\* it emits, in order, whether or not a callback called before raised.
C23_RaisingCallback ==
    [][\A w \in PlayerIds :
          PointWonBy(w)
          => /\ last_call'.op = "add_point"
             /\ last_call'.result = "ok"
             /\ \E t \in ScorePointTypes :
                    /\ MatchState' = add_point(MatchState, w, t)
                    /\ last_call'.emitted = emit_point_events(MatchState', t)
             /\ CalledByMatchManager(last_call'.invoked)
                    = RegisteredFor(last_call'.emitted, event_callbacks)]_vars

\* an ace for which a point_scored callback raised and the listener of the
\* later ace event was still called
C23_Witness ==
    /\ last_call.op = "add_point"
    /\ last_call.result = "ok"
    /\ current_point > 1
    /\ \E i, j \in 1..Len(last_call.invoked) :
           /\ i < j
           /\ last_call.invoked[i].callback = Raiser
           /\ last_call.invoked[i].event = "point_scored"
           /\ last_call.invoked[i].raised
           /\ last_call.invoked[j].callback = Listener
           /\ last_call.invoked[j].event = "ace"
           /\ ~last_call.invoked[j].raised

\* the calls in invoked made for event type e
CallsFor(invoked, e) ==
    SelectSeq(invoked, LAMBDA v : v.event = e)

\* this step is a call of op outside MatchManager that returned normally
SideCallNext(op) ==
    /\ side_calls' = side_calls + 1
    /\ now' = now
    /\ last_call'.op = op
    /\ last_call'.result = "ok"

\* C24: an accepted add_point call calls each point_scored callback exactly
\* once, and every callback it calls reads the Match as the point left it;
\* update_score appends to the point history, and emit_event to the event
\* log, before their callbacks run.
C24_MutationBeforeCallbacks ==
    [][/\ \A w \in PlayerIds :
            PointWonBy(w)
            => /\ [i \in 1..Len(CallsFor(last_call'.invoked, "point_scored"))
                      |-> CallsFor(last_call'.invoked, "point_scored")[i].callback]
                      = event_callbacks["point_scored"]
               /\ \A i \in 1..Len(last_call'.invoked) :
                      last_call'.invoked[i].event # "score_updated"
                      => last_call'.invoked[i].seen = Observed(MatchState')
       /\ SideCallNext("update_score")
            => /\ Len(score_manager'.point_history)
                      = Len(score_manager.point_history) + 1
               /\ Len(last_call'.invoked) = Len(score_manager.score_callbacks)
               /\ \A i \in 1..Len(last_call'.invoked) :
                      last_call'.invoked[i].seen
                          = Len(score_manager'.point_history)
       /\ SideCallNext("emit_event")
            => /\ event_manager'.events = event_manager.events + 1
               /\ Len(last_call'.invoked)
                      = Len(event_manager.event_callbacks["ace"])
               /\ \A i \in 1..Len(last_call'.invoked) :
                      last_call'.invoked[i].seen = event_manager'.events]_vars

\* the second point of a match: the listener of point_scored was called
\* once, after the application's callback, and read the Match with two
\* points played
C24_Witness ==
    /\ last_call.op = "add_point"
    /\ current_point = 3
    /\ Len(CallsFor(last_call.invoked, "point_scored")) = 2
    /\ last_call.invoked[2].callback = Listener
    /\ last_call.invoked[2].seen = Observed(MatchState)
    /\ last_call.invoked[2].seen.events = events.len

\* C25: with the ScoreManager attached through the point_scored callback,
\* an accepted add_point call makes the point history one record longer, a
\* rejected or ignored call leaves it as it is, and no call removes,
\* reorders or changes a record.
C25_HistoryGrowsByOne ==
    [][/\ \A w \in PlayerIds :
            PointWonBy(w)
            => Len(score_manager'.point_history)
                   = Len(score_manager.point_history) + 1
       /\ ( last_call'.op = "add_point" /\ last_call'.result # "ok" )
            => score_manager'.point_history = score_manager.point_history
       /\ Len(score_manager'.point_history)
              >= Len(score_manager.point_history)
       /\ SubSeq(score_manager'.point_history, 1,
                 Len(score_manager.point_history))
              = score_manager.point_history]_vars

\* C26: once the Scoreboard was derived from the Match and no point was
\* played since, deriving it again gives the same Scoreboard, and that
\* Scoreboard is the one a new Scoreboard would become: it depends on the
\* Match alone (last_update and match_duration aside).
C26_IdempotentProjection ==
    updates >= 1
    => /\ update_from_match(score_manager.scoreboard, MatchState)
              = score_manager.scoreboard
       /\ score_manager.scoreboard
              = update_from_match(NewScoreboard, MatchState)

\* the Scoreboard was derived twice in a row after two points, one of them
\* an ace of player1
C26_Witness ==
    /\ updates = 2
    /\ last_call.op = "update_from_match"
    /\ current_point = 3
    /\ score_manager.scoreboard.player1_stats.aces = 1
    /\ score_manager.scoreboard.player1_current_game.points # "0"
    /\ score_manager.scoreboard.status_message = "Live"

\* C30: what get_key_statistics returns is never the empty dictionary and
\* counts every point of the history: its match.total_points is the length
\* of the point history.
C30_FreshStatistics ==
    last_call.op = "get_key_statistics"
    => /\ ~last_stats.empty
       /\ last_stats.match.total_points = Len(score_manager.point_history)

RECURSIVE GameAfterRun(_, _, _)
\* the game in progress after player w won n more points in a row, or as it
\* was when the run completed it
GameAfterRun(g, w, n) ==
    IF n = 0 \/ g.is_completed
    THEN g
    ELSE GameAfterRun(add_point_to_game(g, w), w, n - 1)

\* C33: from every state of a match in progress, a run of points all won by
\* one player completes the game in progress after finitely many points,
\* whoever the player is: no game state absorbs the run.
C33_RunCompletesGame ==
    status = "IN_PROGRESS"
    => \A w \in PlayerIds :
          GameAfterRun(current_game_score, w, MaxRun).is_completed

\* C34: in every set of every state, neither player has more than 7 games.
C34_GamesAtMostSeven ==
    \A i \in 1..Len(sets) :
        /\ sets[i].player1_games <= 7
        /\ sets[i].player2_games <= 7

\* C35: current_game is 1 plus the number of games completed in the current
\* set; right after a set completed and a new one began it is 1.
C35_CurrentGameCount ==
    current_game = 1 + sets[current_set_score].player1_games
                     + sets[current_set_score].player2_games

\* C38: pause_match and resume_match set is_paused and leave the Match as it
\* is; a point given while paused leaves the Match as it is and resume_match
\* does not apply it later; on a match in progress that is not paused,
\* add_point applies the point.
C38_PauseResume ==
    [][/\ last_call'.op = "pause_match"
            => ( is_paused' /\ UNCHANGED match_vars )
       /\ last_call'.op = "resume_match"
            => ( ~is_paused' /\ UNCHANGED match_vars )
       /\ ( is_paused /\ last_call'.op = "add_point" )
            => ( last_call'.result # "ok" /\ UNCHANGED match_vars )
       /\ ( ~is_paused /\ status = "IN_PROGRESS"
                /\ last_call'.op = "add_point" )
            => /\ last_call'.result = "ok"
               /\ \E w \in AnyIds, t \in PointTypes :
                      MatchState' = add_point(MatchState, w, t)]_vars

\* a point was applied to a match that had ignored a point while it was
\* paused and was resumed since
C38_Witness ==
    /\ discarded
    /\ ~is_paused
    /\ last_call.op = "add_point"
    /\ last_call.result = "ok"
    /\ current_point > 1

\* C36: after update_from_match the Scoreboard's is_break_point,
\* is_set_point and is_match_point are the ScoreManager's break-point,
\* set-point and match-point predicates of the same Match.
C36_ScoreboardFlags ==
    /\ update_from_match(score_manager.scoreboard, MatchState).is_break_point
           = is_break_point(MatchState)
    /\ update_from_match(score_manager.scoreboard, MatchState).is_set_point
           = is_set_point(MatchState)
    /\ update_from_match(score_manager.scoreboard, MatchState).is_match_point
           = is_match_point(MatchState)

\* C37: the PointDetails record appended for a point describes the Match
\* as it was before the point was applied: an accepted add_point call
\* appends to the point history the record that _create_point_details
\* builds from the Match the call started with.
C37_RecordOfPlayedPoint ==
    [][( last_call'.op = "add_point" /\ last_call'.result = "ok" )
         => \E w \in PlayerIds, t \in PointTypes :
                score_manager'.point_history
                    = Append(score_manager.point_history,
                             create_point_details(score_manager, MatchState,
                                                  w, t))]_vars

\* this step is a call op to the EventManager
EventManagerCall(op) ==
    /\ last_call'.op = op
    /\ event_manager' # event_manager \/ last_call' # last_call

\* C31: emit_event appends the event to the history and calls every
\* callback registered for its EventType, in the order of registration,
\* whether or not one of them raises; the event stays in the history.
C31_EveryCallbackRuns ==
    [][\A e \in TennisEventTypes :
          ( EventManagerCall("emit_event") /\ last_call'.emitted = <<e>> )
          => /\ event_manager'.events = event_manager.events + 1
             /\ last_call'.result = "ok"
             /\ Len(last_call'.invoked) = Len(event_manager.event_callbacks[e])
             /\ \A i \in 1..Len(last_call'.invoked) :
                    /\ last_call'.invoked[i].event = e
                    /\ last_call'.invoked[i].callback
                           = event_manager.event_callbacks[e][i]
                    /\ last_call'.invoked[i].seen = event_manager'.events]_vars

\* an event was emitted with two callbacks registered for its type: the
\* first raised, the second was called after it, the event is in the log
C31_Witness ==
    /\ last_call.op = "emit_event"
    /\ Len(last_call.invoked) = 2
    /\ last_call.invoked[1].raised
    /\ last_call.invoked[2].callback = Listener
    /\ ~last_call.invoked[2].raised
    /\ event_manager.events >= 1

\* C32: analyze_point emits BREAK_POINT whenever the Match is at a break
\* point and was not at one when analyze_point was called last, whatever
\* the type of the point and however many break points came before.
C32_BreakPointEachEpisode ==
    [][( EventManagerCall("analyze_point")
         /\ is_break_point_situation(MatchState) /\ ~was_break_point )
         => \E i \in 1..Len(last_call'.emitted) :
                last_call'.emitted[i] = "break_point"]_vars

\* the last n entries of history with new_position after them
MostRecent(history, new_position, n) ==
    IF Len(history) < n
    THEN Append(history, new_position)
    ELSE Append(SubSeq(history, Len(history) - n + 2, Len(history)),
                new_position)

\* C40: a player's position_history never holds more than max_history_size
\* entries, they are the most recent positions of that player in arrival
\* order, newest last, and current_location is the last entry; an
\* update_player_position call changes nothing but the positions of the
\* player it is for.
C40_PositionHistory ==
    [][/\ \A p \in PlayerIds :
            /\ Len(position_history'[p]) <= max_history_size
            /\ \A i \in 1..(Len(position_history'[p]) - 1) :
                   position_history'[p][i] < position_history'[p][i + 1]
            /\ current_location'[p] =
                   IF position_history'[p] = <<>> THEN None
                   ELSE position_history'[p][Len(position_history'[p])]
       /\ position_updates' # position_updates
            => /\ UNCHANGED <<match_vars, is_paused, event_callbacks>>
               /\ \E p \in PlayerIds :
                      /\ position_history'[p]
                            = MostRecent(position_history[p],
                                         position_updates + 1,
                                         max_history_size)
                      /\ position_history'[Other(p)]
                            = position_history[Other(p)]]_vars

\* more positions of player1 arrived than its history holds: the oldest
\* were evicted, during a match in progress with a point played
C40_Witness ==
    /\ Len(position_history[P1]) = max_history_size
    /\ position_history[P1][1] > 1
    /\ position_history[P2] # <<>>
    /\ current_location[P1] = position_updates
    /\ current_point > 1

\* C39: an add_point call made by a callback while an add_point call is
\* running applies no point: every accepted add_point call moves the match
\* on by exactly one point.
C39_OnePointPerCall ==
    [][( last_call'.op = "add_point" /\ last_call'.result = "ok" )
         => current_point' = current_point + 1]_vars

====
